---- MODULE Spec2Model ----
(***************************************************************************)
(* AI Recruitment App: the browser client (scripts/app.js) and the proxy   *)
(* server (the Express program listed in ai-recruitment-app-regen/README). *)
(*                                                                         *)
(* Groups of state, each with its own next-state relations:                *)
(*   router  - location.hash, the session, users, Router.render, guards    *)
(*   builder - the JD questionnaire, generate, storage, view / polish      *)
(*   proxy   - the rate limiter, the three POST routes and the upstream    *)
(*   calls   - the requests AIService makes to the proxy                   *)
(*   skills  - the tag-based skills input (createSkillsInput)              *)
(***************************************************************************)
EXTENDS Integers, Sequences, FiniteSets, TLC

VARIABLES
  \* ---- router group ----
  hash,          \* location.hash
  currentUser,   \* sessionStorage["currentUser"], NoUser when absent
  users,         \* localStorage["users"], a sequence of user records
  rendered,      \* the view whose element is the child of #app
  invoked,       \* the view functions the latest Router.render called
  notice,        \* the latest showNotification(message, type)
  header,        \* what updateHeaderAuth last wrote into .nav
  hashEvents,    \* hashchange events queued by the browser
  loaded,        \* DOMContentLoaded has fired
  loginRedirects, \* pending 1.5 s timers of Signup that set the hash to #/login
  \* ---- proxy group ----
  now,           \* the server's Date.now()
  last,          \* the rate limiter's `last`
  apiKey,        \* process.env.OPENAI_API_KEY as the server read it
  reqs,          \* the HTTP requests that reached the server, in arrival order
  calls,         \* the calls AIService has made to the proxy
  \* ---- builder group ----
  currentStep,   \* JDQuestions: index into the filtered questions
  answers,       \* JDQuestions: the answers object
  shown,         \* what #jd-question-container shows: a question key,
                 \* "loading", "success", "failed", or "" before the first render
  counter,       \* the <<i, n>> of 'Question i of n' on screen
  seen,          \* the questions rendered since the view was opened
  questionTimer, \* the 100 ms timer of JDQuestions is pending
  pending,       \* generate calls awaiting the proxy's response
  redirects,     \* pending 2 s timers that set the hash to #/jd-view
  jobDescriptions, \* localStorage["jobDescriptions"]
  listed,        \* the list Views.JDView loaded when it rendered
  viewing,       \* the job description showJobDescription was called with
  jdText,        \* textContent of #jd-text
  polishing,     \* polish calls awaiting the proxy's response
  \* ---- the skills input (createSkillsInput) ----
  skills,        \* the `skills` array the component was created with
  skillInput,    \* the value of its text input
  reported,      \* the list its owner holds: the argument of the latest
                 \* onSkillsChange, the initial list before the first
  skillTags      \* the tags renderSkills drew last

routerVars == <<hash, currentUser, users, rendered, invoked, notice, header,
                hashEvents, loaded, loginRedirects>>
proxyVars == <<now, last, apiKey, reqs>>

wizardVars == <<currentStep, answers, shown, counter, seen, questionTimer>>
viewVars == <<listed, viewing, jdText>>
builderVars == <<wizardVars, viewVars, pending, redirects, jobDescriptions,
                 polishing>>

skillsVars == <<skills, skillInput, reported, skillTags>>

\* what no handler of the page touches: the proxy, the calls made to it, and
\* the skills input, which no view mounts
remote == <<proxyVars, calls, skillsVars>>

vars == <<routerVars, proxyVars, builderVars, calls, skillsVars>>
\* what the actions of one group leave alone
notRouter == <<remote>>
notProxy == <<routerVars, builderVars, calls, skillsVars>>

\* ---------------------------------------------------------------------------
\* Bounds of the model
\* ---------------------------------------------------------------------------
MaxHashEvents == 2
MaxRequests == 2
MaxInFlight == 1
MaxStored == 2
MaxSkills == 2

\* ---------------------------------------------------------------------------
\* Values
\* ---------------------------------------------------------------------------
Absent == "<absent>"          \* a property an object does not have
NoUser == [username |-> Absent, first |-> Absent, last |-> Absent,
           email |-> Absent]
NoNotice == [message |-> Absent, type |-> Absent]

Notification(message, type) == [message |-> message, type |-> type]

\* Router.routes before and after the Object.assign at the end of app.js
OpenRoutes == {"", "#/", "#/login", "#/signup"}
GuardedRoutes == {"#/sales", "#/jd-builder", "#/jd-builder/questions",
                  "#/jd-view", "#/sourcing", "#/recruitment", "#/settings"}
\* an address no route is registered for
UnknownHash == "#/nowhere"
Hashes == OpenRoutes \cup GuardedRoutes \cup {UnknownHash}

\* the view function registered under a hash (the guard wraps it for the
\* guarded ones); Views.Home for an address with no route
RouteView(h) ==
  CASE h = "" -> "Home"
    [] h = "#/" -> "Home"
    [] h = "#/login" -> "Login"
    [] h = "#/signup" -> "Signup"
    [] h = "#/sales" -> "Sales"
    [] h = "#/jd-builder" -> "JDBuilder"
    [] h = "#/jd-builder/questions" -> "JDQuestions"
    [] h = "#/jd-view" -> "JDView"
    [] h = "#/sourcing" -> "Sourcing"
    [] h = "#/recruitment" -> "Recruitment"
    [] h = "#/settings" -> "Settings"
    [] OTHER -> "Home"

\* ---------------------------------------------------------------------------
\* Passwords (PasswordSecurity): PBKDF2 as an injective function of the
\* password and the salt
\* ---------------------------------------------------------------------------
Passwords == {"pw1", "pw2"}
Salts == {"s1", "s2"}
hashPassword(password, salt) == <<"pbkdf2", password, salt>>
verifyPassword(password, hashedPassword, salt) ==
  hashPassword(password, salt) = hashedPassword

\* user records; a field the record lacks is Absent
SecureUser(name, first, pw, salt) ==
  [username |-> name, first |-> first, last |-> "L", email |-> "e@x",
   password |-> Absent, hashedPassword |-> hashPassword(pw, salt),
   salt |-> salt]
LegacyUser(name, first, pw) ==
  [username |-> name, first |-> first, last |-> "L", email |-> "e@x",
   password |-> pw, hashedPassword |-> Absent, salt |-> Absent]

\* the record Login.handleSubmit puts in the session
SessionOf(user) ==
  [username |-> user.username, first |-> user.first, last |-> user.last,
   email |-> user.email]

\* String.prototype.toLowerCase on the user names of the model
toLowerCase(s) == IF s = "Bob" THEN "bob" ELSE s

\* users.find(u => u.username.toLowerCase() === name.toLowerCase()):
\* the index of the first match, 0 when there is none
findUser(us, name) ==
  LET hits == {i \in 1..Len(us) :
                 toLowerCase(us[i].username) = toLowerCase(name)}
  IN IF hits = {} THEN 0 ELSE CHOOSE i \in hits : \A j \in hits : i <= j

\* the stores a browser can hold when the page loads
StoredUsers == <<SecureUser("alice", "Alice", "pw1", "s1"),
                 LegacyUser("Bob", Absent, "pw2")>>

\* ---------------------------------------------------------------------------
\* Router
\* ---------------------------------------------------------------------------
\* location.hash = h: the browser queues a hashchange event only when the
\* address changes
setHash(h, old, queued) == IF h = old THEN queued ELSE queued + 1

\* createRouteGuard(viewFunction)(): what calling the guarded view does, as
\* [views, content, notice, hash]: the view functions that ran, the element
\* returned, the notification on screen and location.hash afterwards
createRouteGuard_NoCheck(viewFunction, user, oldNotice, oldHash) ==
  [views |-> {viewFunction}, content |-> viewFunction,
   notice |-> oldNotice, hash |-> oldHash]

createRouteGuard(viewFunction, user, oldNotice, oldHash) ==
  IF user = NoUser
  THEN [views |-> {"Login"}, content |-> "Login",
        notice |-> Notification("Please login to access this page.", "error"),
        hash |-> "#/login"]
  ELSE [views |-> {viewFunction}, content |-> viewFunction,
        notice |-> oldNotice, hash |-> oldHash]

\* this.routes[currentHash] || Views.Home, called
callRoute(h, user, oldNotice) ==
  IF h \in GuardedRoutes
  THEN createRouteGuard(RouteView(h), user, oldNotice, h)
  ELSE [views |-> {RouteView(h)}, content |-> RouteView(h),
        notice |-> oldNotice, hash |-> h]

\* NavigationManager.updateHeaderAuth
updateHeaderAuth(user) == IF user # NoUser THEN "user" ELSE "guest"

\* root.innerHTML = "": the elements of the view on screen are detached, so
\* its handlers can no longer fire and its in-flight calls write to detached
\* elements
NoJD == [k \in {} |-> ""]
Detach(inFlight) ==
  [i \in 1..Len(inFlight) |-> [inFlight[i] EXCEPT !.live = FALSE]]

\* what the view function called by the router sets up besides its element:
\* Views.JDQuestions starts a fresh questionnaire and a 100 ms timer for its
\* first renderQuestion; Views.JDView loads the stored list.  The 100 ms
\* timer of a questionnaire that was left is taken to have fired by then.
ViewEffects(view) ==
  /\ currentStep' = 0
  /\ answers' = [k \in {} |-> ""]
  /\ shown' = ""
  /\ counter' = <<0, 0>>
  /\ seen' = {}
  /\ questionTimer' = (view = "JDQuestions")
  /\ pending' = Detach(pending)
  /\ listed' = IF view = "JDView" THEN jobDescriptions ELSE <<>>
  /\ viewing' = NoJD
  /\ jdText' = ""
  /\ UNCHANGED <<redirects, jobDescriptions, polishing>>

\* Router.render with `queued` hashchange events waiting behind it
RouterRender(queued) ==
  LET out == callRoute(hash, currentUser, notice)
  IN /\ rendered' = out.content
     /\ invoked' = out.views
     /\ notice' = out.notice
     /\ hash' = out.hash
     /\ hashEvents' = setHash(out.hash, hash, queued)
     /\ ViewEffects(out.content)

\* window DOMContentLoaded listener of initializeApp
DOMContentLoaded ==
  /\ ~loaded
  /\ loaded' = TRUE
  /\ RouterRender(hashEvents)
  /\ header' = updateHeaderAuth(currentUser)
  /\ UNCHANGED <<currentUser, users, loginRedirects>>
  /\ UNCHANGED notRouter

\* window hashchange listener of initializeApp
HashChange ==
  /\ loaded
  /\ hashEvents > 0
  /\ RouterRender(hashEvents - 1)
  /\ header' = updateHeaderAuth(currentUser)
  /\ UNCHANGED <<currentUser, users, loaded, loginRedirects>>
  /\ UNCHANGED notRouter

\* the user follows a link or edits the address bar
Navigate(h) ==
  /\ loaded
  /\ h # hash
  /\ hashEvents < MaxHashEvents
  /\ hash' = h
  /\ hashEvents' = hashEvents + 1
  /\ UNCHANGED <<currentUser, users, rendered, invoked, notice, header, loaded, loginRedirects>>
  /\ UNCHANGED <<notRouter, builderVars>>

\* the upgrade of a legacy record after a successful plain-text comparison:
\* user.hashedPassword = ..., user.salt = ..., delete user.password
upgrade_KeepPassword(user, hashedPassword, salt) ==
  [user EXCEPT !.hashedPassword = hashedPassword, !.salt = salt]

upgrade(user, hashedPassword, salt) ==
  [user EXCEPT !.hashedPassword = hashedPassword, !.salt = salt,
               !.password = Absent]

\* Login.handleSubmit with the form holding (username, password); salt is
\* what crypto.getRandomValues yields and hashOk whether crypto.subtle works
\* when a legacy record is upgraded
LoginSubmit(username, password, salt, hashOk) ==
  /\ loaded
  /\ rendered = "Login"
  /\ hashEvents < MaxHashEvents
  /\ LET i == findUser(users, username)
         user == users[i]
         fail(msg) ==
           /\ notice' = Notification(msg, "error")
           /\ UNCHANGED <<hash, currentUser, users, header, hashEvents>>
         succeed(us) ==
           /\ users' = us
           /\ currentUser' = SessionOf(user)
           /\ notice' = Notification("Welcome back", "success")
           /\ hash' = "#/"
           /\ hashEvents' = setHash("#/", hash, hashEvents)
           /\ header' = updateHeaderAuth(SessionOf(user))
     IN IF username = "" \/ password = ""
        THEN fail("required")
        ELSE IF i = 0
        THEN fail("Invalid username or password.")
        ELSE IF user.hashedPassword # Absent /\ user.salt # Absent
        THEN IF verifyPassword(password, user.hashedPassword, user.salt)
             THEN succeed(users)
             ELSE fail("Invalid username or password.")
        ELSE IF user.password # Absent
        THEN IF password = user.password
             THEN IF hashOk
                  THEN succeed([users EXCEPT ![i] =
                         upgrade(user, hashPassword(password, salt), salt)])
                  ELSE succeed(users)
             ELSE fail("Invalid username or password.")
        ELSE fail("Account data is corrupted. Please contact support.")
  /\ UNCHANGED <<rendered, invoked, loaded, loginRedirects>>
  /\ UNCHANGED <<notRouter, builderVars>>

\* StorageManager.clearCurrentUser: what the session holds afterwards
clearCurrentUser_Keep(user) == user

clearCurrentUser(user) == NoUser

\* NavigationManager.logout, the header's Logout button
Logout ==
  /\ loaded
  /\ header = "user"
  /\ hashEvents < MaxHashEvents
  /\ currentUser' = clearCurrentUser(currentUser)
  /\ notice' = Notification("Logged out successfully!", "success")
  /\ header' = updateHeaderAuth(clearCurrentUser(currentUser))
  /\ hash' = "#/"
  /\ hashEvents' = setHash("#/", hash, hashEvents)
  /\ UNCHANGED <<users, rendered, invoked, loaded, loginRedirects>>
  /\ UNCHANGED <<notRouter, builderVars>>

\* ValidationUtils.validatePasswordStrength and isValidEmail on the values of
\* the model: "weak" fails the strength rules, "e@x" has no dot after the @
validatePasswordStrength(password) == password \in Passwords
isValidEmail(email) == email = "eve@x.io"

\* the record Signup.handleSubmit pushes to the stored users
newUser_Plain(username, email, password, hashedPassword, salt) ==
  [username |-> username, email |-> email, first |-> "Eve", last |-> "L",
   password |-> password, hashedPassword |-> hashedPassword, salt |-> salt,
   createdAt |-> "now"]

newUser(username, email, password, hashedPassword, salt) ==
  [username |-> username, email |-> email, first |-> "Eve", last |-> "L",
   password |-> Absent, hashedPassword |-> hashedPassword, salt |-> salt,
   createdAt |-> "now"]

\* ValidationUtils.validateSignup: no error for these fields (first and last
\* name are filled in)
validateSignup(us, username, email, password) ==
  /\ username # ""
  /\ email # "" /\ isValidEmail(email)
  /\ password # "" /\ validatePasswordStrength(password)
  /\ findUser(us, username) = 0
  /\ \A i \in 1..Len(us) : us[i].email # email

\* Signup.handleSubmit with the form holding (username, email, password); salt
\* is what crypto.getRandomValues yields and hashOk whether crypto.subtle works
SignupSubmit(username, email, password, salt, hashOk) ==
  /\ loaded
  /\ rendered = "Signup"
  /\ IF ~validateSignup(users, username, email, password)
     THEN /\ notice' = Notification("validation errors", "error")
          /\ UNCHANGED <<users, loginRedirects>>
     ELSE IF ~hashOk
     THEN /\ notice' = Notification("Account creation failed. Please try again.",
                                   "error")
          /\ UNCHANGED <<users, loginRedirects>>
     ELSE /\ users' = Append(users, newUser(username, email, password,
                                           hashPassword(password, salt), salt))
          /\ notice' = Notification(
                         "Account created successfully! You can now login.",
                         "success")
          /\ loginRedirects' = loginRedirects + 1
  /\ UNCHANGED <<hash, currentUser, rendered, invoked, header, hashEvents,
                 loaded>>
  /\ UNCHANGED <<notRouter, builderVars>>

\* the 1.5 s timer of a successful signup fires: location.hash = "#/login"
SignupTimer ==
  /\ loginRedirects > 0
  /\ hash # "#/login" => hashEvents < MaxHashEvents
  /\ loginRedirects' = loginRedirects - 1
  /\ hash' = "#/login"
  /\ hashEvents' = setHash("#/login", hash, hashEvents)
  /\ UNCHANGED <<currentUser, users, rendered, invoked, notice, header, loaded>>
  /\ UNCHANGED <<notRouter, builderVars>>

UserNames == {"", "alice", "bob", "eve"}
Emails == {"e@x", "eve@x.io"}
SignupPasswords == {"weak", "pw1"}

RouterStart ==
  /\ hash \in Hashes
  /\ currentUser \in {NoUser, SessionOf(StoredUsers[1])}
  /\ users = StoredUsers
  /\ rendered = "none"
  /\ invoked = {}
  /\ notice = NoNotice
  /\ header = "none"
  /\ hashEvents = 0
  /\ loaded = FALSE /\ loginRedirects = 0

RouterNext ==
  \/ DOMContentLoaded
  \/ HashChange
  \/ \E h \in Hashes : Navigate(h)
  \/ \E u \in UserNames, p \in Passwords \cup {""}, s \in Salts,
        ok \in BOOLEAN : LoginSubmit(u, p, s, ok)
  \/ Logout
  \/ \E u \in UserNames, e \in Emails, p \in SignupPasswords, s \in Salts,
        ok \in BOOLEAN : SignupSubmit(u, e, p, s, ok)
  \/ SignupTimer

\* ---------------------------------------------------------------------------
\* JavaScript values
\* ---------------------------------------------------------------------------
Undefined == "<undefined>"
EmptyObj == [k \in {} |-> ""]
\* `${v}` in a template literal
Str(v) == IF v = Undefined THEN "undefined" ELSE v
\* truthiness of a string-or-undefined value
Truthy(v) == v # Undefined /\ v # ""
\* obj?.k
Field(obj, k) == IF k \in DOMAIN obj THEN obj[k] ELSE Undefined
\* v || d
OrElse(v, d) == IF Truthy(v) THEN v ELSE d
\* String.prototype.trim on the strings of the model
trim(s) ==
  CASE s = " " -> ""
    [] s = " x " -> "x"
    [] OTHER -> s

RECURSIVE join(_, _)
\* Array.prototype.join(sep)
join(arr, sep) ==
  IF Len(arr) = 0 THEN ""
  ELSE IF Len(arr) = 1 THEN arr[1]
  ELSE arr[1] \o sep \o join(Tail(arr), sep)

\* JSON.stringify of a flat object: a property that is undefined is left out
stringify(obj) == [k \in {f \in DOMAIN obj : obj[f] # Undefined} |-> obj[k]]

\* ---------------------------------------------------------------------------
\* The client's requests to the proxy (AIService)
\* ---------------------------------------------------------------------------
getApiKey == ""
getModel == "gpt-4o-mini"
\* the answers that hold arrays (the tag inputs)
ArrayKeys == {"skills", "benefits"}
ClientHeaders == {"Content-Type"}

\* AIService.generateViaProxy: the body of POST /api/generate
generateBody_KeepCompany(ans) ==
  [answers |->
     [k \in DOMAIN ans |->
        IF k \in ArrayKeys THEN join(ans[k], ", ") ELSE ans[k]],
   model |-> getModel]

generateBody(ans) ==
  [answers |->
     [k \in DOMAIN ans \ {"company"} |->
        IF k \in ArrayKeys THEN join(ans[k], ", ") ELSE ans[k]],
   model |-> getModel]

\* AIService.polishViaProxy: the body of POST /api/polish
polishBody(content, instructions) ==
  stringify([content |-> content, instructions |-> instructions,
             model |-> getModel])

\* AIService.sourcingViaProxy: the body of POST /api/sourcing
sourcingBody(jobDescription, location) ==
  stringify([jd |-> jobDescription, location |-> location,
             model |-> getModel])

\* ---------------------------------------------------------------------------
\* The proxy server
\* ---------------------------------------------------------------------------
RATE_LIMIT_MS == 750
\* Date.now() when the server starts: epoch milliseconds, far above the window
BootTime == 2 * RATE_LIMIT_MS
\* the instants at which the model lets requests arrive
ClockTimes == {BootTime + d : d \in {0, RATE_LIMIT_MS - 1, RATE_LIMIT_MS,
                                     2 * RATE_LIMIT_MS - 1, 2 * RATE_LIMIT_MS}}

Keys == {Undefined, "sk-A", "sk-B"}

GENERATE_SYSTEM == "You are a professional HR assistant. ..."
POLISH_SYSTEM == "You are a meticulous recruiter editor. ..."
SourcingSystem(location) ==
  "You are a recruiter ... for a role based in " \o Str(location) \o ". ..."

Messages(system, user) ==
  <<[role |-> "system", content |-> system],
    [role |-> "user", content |-> user]>>

\* what the upstream API can do with a call
NoResult == [kind |-> "none", status |-> "", content |-> ""]
UpOk(content) == [kind |-> "ok", status |-> "200", content |-> content]
UpHttp(status, text) == [kind |-> "http", status |-> status, content |-> text]
UpNetwork == [kind |-> "network", status |-> "", content |-> "fetch failed"]

FULL_JSON == "{companies:[Acme],diceSearch:d,summary:s}"
\* a JSON array of company names, with no brace in it
ARRAY_JSON == "[Google,Meta]"
UpstreamResults(route) ==
  {UpOk("AI text"), UpOk(Undefined), UpHttp("401", "invalid key"), UpNetwork}
  \cup (IF route = "/api/sourcing"
        THEN {UpOk(FULL_JSON), UpOk("{}"), UpOk(ARRAY_JSON)} ELSE {})

\* the rate limiter's test
rateLimited_Short(nowv, lastv) == nowv - lastv < RATE_LIMIT_MS - 1

rateLimited(nowv, lastv) == nowv - lastv < RATE_LIMIT_MS

\* the value an admitted request leaves in `last` (last = now)
stamp_Keep(nowv, lastv) == lastv

stamp(nowv, lastv) == nowv

\* the request callOpenAI sends upstream
NoCall == [url |-> "", authorization |-> "", body |-> EmptyObj]
UpstreamRequest(key, messages, model, temperature) ==
  [url |-> "https://api.openai.com/v1/chat/completions",
   authorization |-> "Bearer " \o key,
   body |-> [model |-> model, messages |-> messages,
             temperature |-> temperature]]

\* callOpenAI once the upstream has answered with `up` (not consulted when
\* the key is missing): [threw, value], value the text or the error message
callOpenAI_LeakKey(key, up) ==
  IF ~Truthy(key) THEN [threw |-> TRUE, value |-> "Missing OPENAI_API_KEY"]
  ELSE IF up.kind = "network" THEN [threw |-> TRUE, value |-> up.content]
  ELSE IF up.kind = "http"
  THEN [threw |-> TRUE,
        value |-> "OpenAI error " \o up.status \o " for " \o key \o ": "
                  \o up.content]
  ELSE [threw |-> FALSE,
        value |-> OrElse(IF up.content = Undefined THEN Undefined
                         ELSE trim(up.content), "")]

callOpenAI(key, up) ==
  IF ~Truthy(key) THEN [threw |-> TRUE, value |-> "Missing OPENAI_API_KEY"]
  ELSE IF up.kind = "network" THEN [threw |-> TRUE, value |-> up.content]
  ELSE IF up.kind = "http"
  THEN [threw |-> TRUE,
        value |-> "OpenAI error " \o up.status \o ": " \o up.content]
  ELSE [threw |-> FALSE,
        value |-> OrElse(IF up.content = Undefined THEN Undefined
                         ELSE trim(up.content), "")]

\* POST /api/generate: the lines pushed for req.body.answers, each a label and
\* the value put after it
generateLines(body) ==
  LET given == IF "answers" \in DOMAIN body THEN body.answers ELSE EmptyObj
      a(k) == Field(given, k)
      line(label, value) == <<[label |-> label, value |-> value]>>
      opt(k, label) == IF Truthy(a(k)) THEN line(label, a(k)) ELSE <<>>
  IN line("Job Role: ", OrElse(a("role"), ""))
     \o line("Location: ", OrElse(a("location"), ""))
     \o opt("timezone", "Time zone: ")
     \o line("Employment type: ", OrElse(a("hireType"), ""))
     \o opt("duration", "Contract duration: ")
     \o opt("domain", "Domain preference: ")
     \o opt("skills", "Key skills: ")
     \o opt("goals", "1-year success goals: ")
     \o opt("kpi", "KPIs: ")
     \o opt("superstar", "Superstar outcomes: ")
     \o opt("ninety", "First 90 days: ")
     \o opt("benefits", "Benefits and perks: ")
     \o opt("applicationProcess", "Application process: ")

\* POST /api/generate: the user message, lines.join("\n")
generateUser(body) ==
  LET lines == generateLines(body)
  IN join([i \in 1..Len(lines) |-> lines[i].label \o lines[i].value], "\n")

\* POST /api/polish: the user message built from req.body
polishPrompt(jd, instructions) ==
  "Original JD:\n\n" \o Str(jd) \o "\n\nPolish instructions:\n"
  \o Str(instructions)

polishUser(body) == polishPrompt(Field(body, "jd"), Field(body, "instructions"))

\* POST /api/sourcing: the user message built from req.body
sourcingUser(body) == "Job Description:\n\n" \o Str(Field(body, "jd"))

\* the messages, model and temperature a route hands to callOpenAI
routeCall(key, route, body) ==
  LET model == OrElse(Field(body, "model"), "gpt-4o-mini")
  IN CASE route = "/api/generate" ->
            UpstreamRequest(key, Messages(GENERATE_SYSTEM, generateUser(body)),
                            model, "0.3")
       [] route = "/api/polish" ->
            UpstreamRequest(key, Messages(POLISH_SYSTEM, polishUser(body)),
                            model, "0.2")
       [] route = "/api/sourcing" ->
            UpstreamRequest(key,
              Messages(SourcingSystem(Field(body, "location")),
                       sourcingUser(body)),
              model, "0.3")

\* JSON.parse of the text between the first "{" and the last "}" (the whole
\* text when it has no "{"): [ok, array, value], ok FALSE when it throws,
\* array whether the value is an Array.  An array is written as the object of
\* its index properties "0", "1", ...
parseJson(text) ==
  CASE text = FULL_JSON ->
         [ok |-> TRUE, array |-> FALSE,
          value |-> [companies |-> <<"Acme">>, diceSearch |-> "d",
                     summary |-> "s"]]
    [] text = "{}" -> [ok |-> TRUE, array |-> FALSE, value |-> EmptyObj]
    [] text = ARRAY_JSON ->
         [ok |-> TRUE, array |-> TRUE,
          value |-> [k \in {"0", "1"} |-> IF k = "0" THEN "Google" ELSE "Meta"]]
    [] OTHER -> [ok |-> FALSE, array |-> FALSE, value |-> EmptyObj]

\* the sample strategy of the inner catch block
sourcingFallback(location) ==
  [companies |->
     <<[name |-> "Sample Company",
        linkedinSearch |-> "site:linkedin.com/in/ \"" \o Str(location)
                           \o "\" AND \"software developer\"",
        reason |-> "Sample company with relevant talent"]>>,
   diceSearch |-> "\"" \o Str(location)
                  \o "\" AND \"software developer\" AND \"full time\"",
   summary |-> "Fallback sourcing strategy generated. Please check your AI settings."]

\* the 200 body of POST /api/sourcing for the upstream text: the parsed value
\* with the three properties filled in, as res.json serialises it (of an
\* array JSON.stringify writes the elements only), or the fallback
sourcingResult(text, location) ==
  LET p == parseJson(trim(text))
      v == p.value
  IN IF p.ok /\ p.array THEN v
     ELSE IF p.ok
     THEN [companies |-> IF "companies" \in DOMAIN v THEN v.companies
                         ELSE <<>>,
           diceSearch |-> OrElse(Field(v, "diceSearch"), ""),
           summary |-> OrElse(Field(v, "summary"),
                              "Sourcing strategy generated successfully.")]
     ELSE sourcingFallback(location)

Response(status, body) == [status |-> status, body |-> body]
NoResponse == Response(0, EmptyObj)
TooManyRequests == Response(429, [error |-> "Too many requests"])

\* what a route handler answers once callOpenAI has returned or thrown
Respond_Retry(key, route, body, up) ==
  IF route = "/health" THEN Response(200, [ok |-> TRUE])
  ELSE LET r == callOpenAI(key, up)
       IN IF r.threw /\ up # NoResult THEN NoResponse
          ELSE IF r.threw THEN Response(500, [error |-> r.value])
          ELSE IF route = "/api/sourcing"
          THEN Response(200, sourcingResult(r.value, Field(body, "location")))
          ELSE Response(200, [text |-> r.value])
Respond(key, route, body, up) ==
  IF route = "/health" THEN Response(200, [ok |-> TRUE])
  ELSE LET r == callOpenAI(key, up)
       IN IF r.threw THEN Response(500, [error |-> r.value])
          ELSE IF route = "/api/sourcing"
          THEN Response(200, sourcingResult(r.value, Field(body, "location")))
          ELSE Response(200, [text |-> r.value])

\* the requests that arrive: the client's three calls, a health probe
SampleAnswers ==
  [role |-> "Engineer", location |-> "Remote", hireType |-> "Contract",
   duration |-> "6 months", company |-> "Acme Corp",
   skills |-> <<"Python", "Go">>, benefits |-> <<"Remote work">>]
ClientCalls ==
  {[route |-> "/api/generate", body |-> generateBody(SampleAnswers)],
   [route |-> "/api/polish",
    body |-> polishBody("JD text", "make it shorter")],
   [route |-> "/api/sourcing", body |-> sourcingBody("JD text", "Austin, TX")],
   [route |-> "/health", body |-> EmptyObj]}

\* a request record: `handler` is the route handler that ran ("" for none),
\* `upstream` the call sent to the API, `result` what the API did with it
Request(route, headers, body, at, handler, upstream, result, response) ==
  [route |-> route, headers |-> headers, body |-> body, at |-> at,
   handler |-> handler, upstream |-> upstream, result |-> result,
   response |-> response]

\* time passes on the server (a monotonic clock)
Tick(t) ==
  /\ t > now
  /\ now' = t
  /\ UNCHANGED <<last, apiKey, reqs>>
  /\ UNCHANGED notProxy

\* a request reaches the server: the rate-limit middleware, then the route
\* handler up to its await of the upstream fetch
ArriveStep(route, body) ==
  /\ Len(reqs) < MaxRequests
  /\ IF rateLimited(now, last)
     THEN /\ last' = last
          /\ reqs' = Append(reqs,
               Request(route, ClientHeaders, body, now, "", NoCall, NoResult,
                       TooManyRequests))
     ELSE /\ last' = stamp(now, last)
          /\ reqs' = Append(reqs,
               IF route = "/health" \/ ~Truthy(apiKey)
               THEN Request(route, ClientHeaders, body, now, route, NoCall,
                            NoResult, Respond(apiKey, route, body, NoResult))
               ELSE Request(route, ClientHeaders, body, now, route,
                            routeCall(apiKey, route, body), NoResult,
                            NoResponse))
  /\ UNCHANGED <<now, apiKey>>

\* a request of some client reaches the server
Arrive(route, body) == ArriveStep(route, body) /\ UNCHANGED notProxy

\* the upstream API answers the call of request i (or the fetch fails)
UpstreamReply(i, up) ==
  /\ i \in 1..Len(reqs)
  /\ reqs[i].upstream # NoCall
  /\ reqs[i].response = NoResponse
  /\ reqs' = [reqs EXCEPT ![i].result = up,
                          ![i].response =
                            Respond(apiKey, reqs[i].route, reqs[i].body, up)]
  /\ UNCHANGED <<now, last, apiKey>>
  /\ UNCHANGED notProxy

ProxyStart ==
  /\ now = BootTime
  /\ last = 0
  /\ apiKey \in Keys
  /\ reqs = <<>>
  /\ calls = <<>>

ProxyNext ==
  \/ \E t \in ClockTimes : Tick(t)
  \/ \E c \in ClientCalls : Arrive(c.route, c.body)
  \/ \E i \in 1..MaxRequests :
       \E up \in UpstreamResults(IF i <= Len(reqs) THEN reqs[i].route ELSE "") :
         UpstreamReply(i, up)

\* ---------------------------------------------------------------------------
\* The JD questionnaire (Views.JDQuestions)
\* ---------------------------------------------------------------------------
Question(key, type, conditional) ==
  [key |-> key, type |-> type, conditional |-> conditional]
\* the questions array; `conditional` marks the one entry with a condition
questions ==
  <<Question("role", "text", FALSE),
    Question("location", "text", FALSE),
    Question("timezone", "text", FALSE),
    Question("hireType", "select", FALSE),
    Question("duration", "text", TRUE),
    Question("domain", "text", FALSE),
    Question("skills", "textarea", FALSE),
    Question("goals", "textarea", FALSE),
    Question("kpi", "text", FALSE),
    Question("superstar", "textarea", FALSE),
    Question("ninety", "textarea", FALSE),
    Question("benefits", "multi-select", FALSE),
    Question("applicationProcess", "text", FALSE)>>
QuestionKeys == {questions[i].key : i \in 1..Len(questions)}
QuestionOf(key) ==
  CHOOSE q \in {questions[i] : i \in 1..Len(questions)} : q.key = key
\* the options of the hireType select, and its placeholder option
HireTypeOptions == {"Full-time", "Part-time", "Contract", "Freelance"}
NoOption == ""

\* question.condition(answers) of the duration question
condition(ans) == Field(ans, "hireType") = "Contract"

getFilteredQuestions_All(ans) == questions
getFilteredQuestions(ans) ==
  SelectSeq(questions, LAMBDA q : ~q.conditional \/ condition(ans))

\* renderQuestion throws before it touches the page when there is no
\* question at currentStep (question.q of undefined) and when the question
\* is "skills": createSkillsInput is called unqualified, and only
\* Views.createSkillsInput exists
renderThrows(step, ans) ==
  LET filteredQuestions == getFilteredQuestions(ans)
  IN \/ step >= Len(filteredQuestions)
     \/ filteredQuestions[step + 1].key = "skills"

\* renderQuestion: the card replaces the content of #jd-question-container
renderQuestion(step, ans) ==
  LET filteredQuestions == getFilteredQuestions(ans)
  IN IF renderThrows(step, ans)
     THEN UNCHANGED <<shown, counter, seen>>
     ELSE /\ shown' = filteredQuestions[step + 1].key
          /\ counter' = <<step + 1, Len(filteredQuestions)>>
          /\ seen' = seen \cup {filteredQuestions[step + 1].key}

\* the value of currentStep after handleNext's currentStep++ and the render
\* that follows it
advance_OnSuccess(step, threw) == IF threw THEN step ELSE step + 1
advance(step, threw) == step + 1

\* obj[key] = value
Put(obj, key, value) ==
  [k \in DOMAIN obj \cup {key} |-> IF k = key THEN value ELSE obj[k]]
\* answers[key] || []
Items(ans, key) == IF key \in DOMAIN ans THEN ans[key] ELSE <<>>
includes(arr, v) == \E i \in 1..Len(arr) : arr[i] = v
\* arr.splice(index, 1), index counted from 1
splice(arr, index) ==
  [i \in 1..(Len(arr) - 1) |-> IF i < index THEN arr[i] ELSE arr[i + 1]]
indexOf(arr, v) == CHOOSE i \in 1..Len(arr) : arr[i] = v /\
                     \A j \in 1..(i - 1) : arr[j] # v

\* a generate call as it leaves the browser; `live` says its container is
\* still on the page
GenerateCall(ans, displayed) ==
  [answers |-> ans, body |-> generateBody(ans), seen |-> displayed,
   live |-> TRUE]

\* the values typed or chosen in the questionnaire
TextInputs == {"", " ", "x", " x "}
SelectInputs == {NoOption} \cup HireTypeOptions
InputsOf(key) ==
  IF QuestionOf(key).type = "select" THEN SelectInputs
  ELSE IF QuestionOf(key).type = "multi-select" THEN {""}
  ELSE TextInputs
Suggestions == {"Remote work"}
CustomInputs == {"", "Free snacks"}
TagPositions == 1..Cardinality(Suggestions \cup CustomInputs)

routerButNotice ==
  <<hash, currentUser, users, rendered, invoked, header, hashEvents, loaded, loginRedirects>>
notWizard ==
  <<remote, viewVars, redirects, jobDescriptions, polishing>>

\* the 100 ms timer set by Views.JDQuestions fires
QuestionTimer ==
  /\ questionTimer
  /\ questionTimer' = FALSE
  /\ renderQuestion(currentStep, answers)
  /\ UNCHANGED <<currentStep, answers, pending, notice, routerButNotice,
                 notWizard>>

\* handleNext of the question on screen, with v in its input
PressNext(v) ==
  /\ shown \in QuestionKeys
  /\ v \in InputsOf(shown)
  /\ LET question == QuestionOf(shown)
         multi == question.type = "multi-select"
         valid == IF multi
                  THEN Len(Items(answers, question.key)) > 0
                  ELSE trim(v) # ""
         ans2 == IF multi THEN answers
                 ELSE Put(answers, question.key, trim(v))
         step2 == currentStep + 1
         threw == renderThrows(step2, ans2)
     IN IF ~valid
        THEN /\ notice' =
                  Notification(IF multi
                               THEN "Please select at least one option."
                               ELSE "Please provide an answer.", "error")
             /\ UNCHANGED <<wizardVars, pending>>
        ELSE /\ answers' = ans2
             /\ notice' = notice
             /\ questionTimer' = questionTimer
             /\ IF step2 < Len(getFilteredQuestions(ans2))
                THEN /\ currentStep' = advance(currentStep, threw)
                     /\ IF threw THEN UNCHANGED <<shown, counter, seen>>
                        ELSE renderQuestion(step2, ans2)
                     /\ pending' = pending
                ELSE \* generateJobDescription up to its fetch
                     /\ Len(pending) < MaxInFlight
                     /\ Len(jobDescriptions) + Len(pending) < MaxStored
                     /\ currentStep' = step2
                     /\ shown' = "loading"
                     /\ counter' = <<0, 0>>
                     /\ seen' = seen
                     /\ pending' = Append(pending, GenerateCall(ans2, seen))
  /\ UNCHANGED <<routerButNotice, notWizard>>

\* handleBack; the button is on the card when it was rendered past step 0
PressBack ==
  /\ shown \in QuestionKeys
  /\ counter[1] > 1
  /\ IF currentStep > 0
     THEN /\ currentStep' = currentStep - 1
          /\ renderQuestion(currentStep - 1, answers)
     ELSE UNCHANGED <<currentStep, shown, counter, seen>>
  /\ UNCHANGED <<answers, questionTimer, pending, notice, routerButNotice,
                 notWizard>>

\* createMultiSelectInput: a click on a suggestion
ToggleSuggestion(suggestion) ==
  /\ shown \in QuestionKeys
  /\ QuestionOf(shown).type = "multi-select"
  /\ LET selectedItems == Items(answers, shown)
     IN answers' =
          Put(answers, shown,
              IF includes(selectedItems, suggestion)
              THEN splice(selectedItems, indexOf(selectedItems, suggestion))
              ELSE Append(selectedItems, suggestion))
  /\ UNCHANGED <<currentStep, shown, counter, seen, questionTimer, pending,
                 notice, routerButNotice, notWizard>>

\* createMultiSelectInput: Enter in the custom input holding v
EnterCustom(v) ==
  /\ shown \in QuestionKeys
  /\ QuestionOf(shown).type = "multi-select"
  /\ LET selectedItems == Items(answers, shown)
         value == trim(v)
     IN IF value # "" /\ ~includes(selectedItems, value)
        THEN answers' = Put(answers, shown, Append(selectedItems, value))
        ELSE answers' = answers
  /\ UNCHANGED <<currentStep, shown, counter, seen, questionTimer, pending,
                 notice, routerButNotice, notWizard>>

\* createMultiSelectInput: the remove button of the tag at index
RemoveTag(index) ==
  /\ shown \in QuestionKeys
  /\ QuestionOf(shown).type = "multi-select"
  /\ index \in 1..Len(Items(answers, shown))
  /\ answers' = Put(answers, shown, splice(Items(answers, shown), index))
  /\ UNCHANGED <<currentStep, shown, counter, seen, questionTimer, pending,
                 notice, routerButNotice, notWizard>>

\* a signed-in user opens the page at #/jd-builder/questions
Alice == SessionOf(StoredUsers[1])
WizardStart ==
  /\ hash = "#/jd-builder/questions" /\ currentUser = Alice
  /\ users = StoredUsers
  /\ rendered = "none" /\ invoked = {} /\ notice = NoNotice
  /\ header = "none" /\ hashEvents = 0 /\ loaded = FALSE /\ loginRedirects = 0

\* the user of the questionnaire who answers what is on screen and presses
\* Next, and never Back: a filled input, or at least one selected item
Supplied(v) ==
  IF QuestionOf(shown).type = "multi-select"
  THEN Len(Items(answers, shown)) > 0
  ELSE trim(v) # ""
AnswerAndNext(v) == shown \in QuestionKeys /\ Supplied(v) /\ PressNext(v)
AddSuggestion(s) ==
  /\ shown \in QuestionKeys
  /\ QuestionOf(shown).type = "multi-select"
  /\ ~includes(Items(answers, shown), s)
  /\ ToggleSuggestion(s)
AnswerNext == \E v \in TextInputs \cup SelectInputs : AnswerAndNext(v)
AddItem == \E s \in Suggestions : AddSuggestion(s)

WizardLiveNext ==
  \/ DOMContentLoaded
  \/ QuestionTimer
  \/ \E v \in TextInputs \cup SelectInputs : AnswerAndNext(v)
  \/ \E s \in Suggestions : AddSuggestion(s)
  \/ \E v \in CustomInputs : EnterCustom(v)

WizardNext ==
  \/ DOMContentLoaded
  \/ QuestionTimer
  \/ \E v \in TextInputs \cup SelectInputs : PressNext(v)
  \/ PressBack
  \/ \E s \in Suggestions : ToggleSuggestion(s)
  \/ \E v \in CustomInputs : EnterCustom(v)
  \/ \E i \in TagPositions : RemoveTag(i)

\* ---------------------------------------------------------------------------
\* Generation, storage, the JD view and polishing
\* ---------------------------------------------------------------------------
\* a job description saved by an earlier session
OldJD ==
  [id |-> "0", title |-> "Engineer", location |-> "Remote",
   content |-> "Old JD text", createdAt |-> "0",
   answers |-> [role |-> "Engineer", location |-> "Remote"]]
StoredLists == {<<>>, <<OldJD>>}

\* Date.now().toString() when a job description is saved: the clock has
\* moved on since the ids already stored were taken
DateNow(stored) == ToString(Len(stored) + 1)

\* StorageManager.saveJobDescription: load, unshift, save
saveJobDescription_Push(stored, jobDescription) ==
  Append(stored, jobDescription)
saveJobDescription(stored, jobDescription) == <<jobDescription>> \o stored

\* what fetch gives the client: a response of the proxy, or a rejection
NetworkError == Response(0, [error |-> "Failed to fetch"])
GenerateOutcomes ==
  {Response(200, [text |-> "AI text"]), TooManyRequests,
   Response(500, [error |-> "Missing OPENAI_API_KEY"]), NetworkError}
PolishOutcomes ==
  {Response(200, [text |-> "Polished text"]), TooManyRequests, NetworkError}
\* response.ok
ok_Lenient(response) == response.status # 0

ok(response) == response.status = 200

\* JobDescriptionBuilder.buildJobDescription, as [threw, value]: split is
\* called on every answer it lists, and the answers of the tag inputs are
\* arrays, which have no split (the strings of the model hold one line, and
\* the bullet is written "- ")
Bullets(s) == "- " \o s
buildJobDescription(ans) ==
  LET a(k) == Field(ans, k)
      sections ==
        <<"JOB TITLE: " \o OrElse(a("role"), ""),
          IF Truthy(a("company")) THEN "COMPANY: " \o a("company") ELSE "",
          "LOCATION: " \o OrElse(a("location"), ""),
          IF Truthy(a("timezone")) THEN "TIME ZONE: " \o a("timezone") ELSE "",
          "EMPLOYMENT TYPE: " \o OrElse(a("hireType"), ""),
          IF Truthy(a("duration"))
          THEN "CONTRACT DURATION: " \o a("duration") ELSE "",
          "", "JOB SUMMARY",
          "We are seeking a " \o OrElse(a("role"), "professional")
            \o " to join our team"
            \o (IF Truthy(a("location")) THEN " in " \o a("location") ELSE "")
            \o ". "
            \o (IF Truthy(a("domain"))
                THEN "This role focuses on " \o a("domain") \o "." ELSE ""),
          "", "KEY RESPONSIBILITIES",
          IF Truthy(a("goals")) THEN Bullets(a("goals")) ELSE "",
          "", "REQUIRED SKILLS",
          "", "PREFERRED QUALIFICATIONS",
          IF Truthy(a("kpi")) THEN Bullets(a("kpi")) ELSE "",
          "", "SUPERSTAR OUTCOMES",
          IF Truthy(a("superstar")) THEN Bullets(a("superstar")) ELSE "",
          "", "FIRST 90 DAYS",
          IF Truthy(a("ninety")) THEN Bullets(a("ninety")) ELSE "",
          "", "BENEFITS & PERKS",
          "- Competitive salary",
          "", "HOW TO APPLY",
          OrElse(a("applicationProcess"), "Please submit your resume."),
          "", "Equal Opportunity Employer">>
  IN IF DOMAIN ans \cap ArrayKeys # {}
     THEN [threw |-> TRUE, value |-> "answers.skills.split is not a function"]
     ELSE [threw |-> FALSE,
           value |-> join(SelectSeq(sections, LAMBDA line : line # ""), "\n")]

\* the object generateJobDescription saves
JobDescription(stored, ans, generatedText) ==
  [id |-> DateNow(stored), title |-> Field(ans, "role"),
   location |-> Field(ans, "location"), content |-> generatedText,
   createdAt |-> DateNow(stored), answers |-> ans]

Remove(inFlight, i) == [j \in 1..(Len(inFlight) - 1) |->
                          IF j < i THEN inFlight[j] ELSE inFlight[j + 1]]

\* generateJobDescription after its await: generate call i gets `response`
GenerateReply(i, response) ==
  /\ i \in 1..Len(pending)
  /\ LET call == pending[i]
     IN IF ok(response)
        THEN /\ jobDescriptions' =
                  saveJobDescription(jobDescriptions,
                    JobDescription(jobDescriptions, call.answers,
                                   Field(response.body, "text")))
             /\ shown' = IF call.live THEN "success" ELSE shown
             /\ redirects' = redirects + 1
        ELSE /\ shown' = IF call.live THEN "failed" ELSE shown
             /\ UNCHANGED <<jobDescriptions, redirects>>
  /\ pending' = Remove(pending, i)
  /\ UNCHANGED <<currentStep, answers, counter, seen, questionTimer>>
  /\ UNCHANGED <<routerVars, remote, viewVars, polishing>>

\* the "Try Again" button of the failure card: renderQuestion()
TryAgain ==
  /\ shown = "failed"
  /\ renderQuestion(currentStep, answers)
  /\ UNCHANGED <<currentStep, answers, questionTimer, pending>>
  /\ UNCHANGED <<routerVars, notWizard>>

\* the 2 s timer set after a successful generation fires
RedirectTimer ==
  /\ redirects > 0
  /\ hash # "#/jd-view" => hashEvents < MaxHashEvents
  /\ redirects' = redirects - 1
  /\ hash' = "#/jd-view"
  /\ hashEvents' = setHash("#/jd-view", hash, hashEvents)
  /\ UNCHANGED <<currentUser, users, rendered, invoked, notice, header,
                 loaded, loginRedirects>>
  /\ UNCHANGED <<remote, wizardVars, viewVars, pending, jobDescriptions,
                 polishing>>

\* the View button of entry i of Views.JDView: showJobDescription(jd)
ViewJD(i) ==
  /\ rendered = "JDView"
  /\ i \in 1..Len(listed)
  /\ rendered' = "showJobDescription"
  /\ viewing' = listed[i]
  /\ jdText' = listed[i].content
  /\ listed' = <<>>
  /\ UNCHANGED <<hash, currentUser, users, invoked, notice, header,
                 hashEvents, loaded, loginRedirects>>
  /\ UNCHANGED <<remote, wizardVars, pending, redirects, jobDescriptions,
                 polishing>>

\* handlePolish up to its fetch, with v in #polish-notes
Polish(v) ==
  /\ rendered = "showJobDescription"
  /\ Len(polishing) < MaxInFlight
  /\ IF trim(v) = ""
     THEN /\ notice' = Notification("Add what you want to polish.", "error")
          /\ polishing' = polishing
     ELSE /\ notice' = notice
          /\ polishing' =
               Append(polishing, polishBody(viewing.content, trim(v)))
  /\ UNCHANGED <<routerButNotice, remote, wizardVars, viewVars, pending,
                 redirects, jobDescriptions>>

\* handlePolish after its await: polish call i gets `response`; #jd-text is
\* looked up again, and is there only while a job description is shown
PolishReply(i, response) ==
  /\ i \in 1..Len(polishing)
  /\ polishing' = Remove(polishing, i)
  /\ IF ~ok(response)
     THEN /\ notice' = Notification(response.body.error, "error")
          /\ jdText' = jdText
     ELSE IF rendered # "showJobDescription"
     THEN /\ notice' = Notification("Cannot set properties of null", "error")
          /\ jdText' = jdText
     ELSE /\ notice' = notice
          /\ jdText' = Field(response.body, "text")
  /\ UNCHANGED <<routerButNotice, remote, wizardVars, listed, viewing,
                 pending, redirects, jobDescriptions>>

\* handleSaveFinal: the stored entries with the id shown get text and final
handleSaveFinal(stored, id, text) ==
  [i \in 1..Len(stored) |->
     IF stored[i].id = id
     THEN [text |-> text, final |-> "true"] @@ stored[i]
     ELSE stored[i]]

SaveFinal ==
  /\ rendered = "showJobDescription"
  /\ hash # "#/jd-view" => hashEvents < MaxHashEvents
  /\ jobDescriptions' = handleSaveFinal(jobDescriptions, viewing.id, jdText)
  /\ notice' = Notification("Saved final version.", "success")
  /\ hash' = "#/jd-view"
  /\ hashEvents' = setHash("#/jd-view", hash, hashEvents)
  /\ UNCHANGED <<currentUser, users, rendered, invoked, header, loaded, loginRedirects>>
  /\ UNCHANGED <<remote, wizardVars, viewVars, pending, redirects,
                 polishing>>

\* the "Back to list" button: location.hash = "#/jd-view"
BackToList ==
  /\ rendered = "showJobDescription"
  /\ hash # "#/jd-view" => hashEvents < MaxHashEvents
  /\ hash' = "#/jd-view"
  /\ hashEvents' = setHash("#/jd-view", hash, hashEvents)
  /\ UNCHANGED <<currentUser, users, rendered, invoked, notice, header,
                 loaded, loginRedirects>>
  /\ UNCHANGED <<remote, builderVars>>

\* what the user of the builder types, chooses and visits
BuilderInputs == {"", "x", "Full-time", "Contract"}
BuilderCustom == {"Remote work"}
PolishInputs == {"", "make it shorter"}
BuilderHashes == {"#/jd-builder/questions", "#/jd-view"}

BuilderStart ==
  /\ hash \in BuilderHashes /\ currentUser = Alice
  /\ users = StoredUsers
  /\ rendered = "none" /\ invoked = {} /\ notice = NoNotice
  /\ header = "none" /\ hashEvents = 0 /\ loaded = FALSE /\ loginRedirects = 0

\* the user follows a link once the page has settled
Visit(h) == hashEvents = 0 /\ Navigate(h)

\* the questionnaire is walked forward here; SpecWizard has handleBack
BuilderNext ==
  \/ DOMContentLoaded
  \/ HashChange
  \/ \E h \in BuilderHashes : Visit(h)
  \/ QuestionTimer
  \/ \E v \in BuilderInputs : PressNext(v)
  \/ \E s \in Suggestions : ToggleSuggestion(s)
  \/ \E v \in BuilderCustom : EnterCustom(v)
  \/ \E i \in TagPositions : RemoveTag(i)
  \/ \E i \in 1..MaxInFlight : \E r \in GenerateOutcomes : GenerateReply(i, r)
  \/ TryAgain
  \/ RedirectTimer

\* the saved job descriptions a session may find, and the pages its user
\* moves between
SavedLists ==
  StoredLists \cup
    {<<JobDescription(<<OldJD>>, [role |-> "x", location |-> "x"], "AI text"),
       OldJD>>}
JDViewHashes == {"#/jd-view", "#/jd-builder"}
JDViewStart ==
  /\ hash \in JDViewHashes /\ currentUser = Alice
  /\ users = StoredUsers
  /\ rendered = "none" /\ invoked = {} /\ notice = NoNotice
  /\ header = "none" /\ hashEvents = 0 /\ loaded = FALSE /\ loginRedirects = 0

JDViewNext ==
  \/ DOMContentLoaded
  \/ HashChange
  \/ \E h \in JDViewHashes : Navigate(h)
  \/ \E i \in 1..MaxStored : ViewJD(i)
  \/ \E v \in PolishInputs : Polish(v)
  \/ \E i \in 1..MaxInFlight : \E r \in PolishOutcomes : PolishReply(i, r)
  \/ SaveFinal
  \/ BackToList

\* ---------------------------------------------------------------------------
\* AIService: generateViaProxy, polishViaProxy and sourcingViaProxy, each
\* called once by the handler of the user action that starts the operation
\* (handleNext on the last question, handlePolish, handleLocationSubmit)
\* ---------------------------------------------------------------------------
\* the requests AIService makes
AICalls == {c \in ClientCalls : c.route # "/health"}

\* a call of AIService: `request` is the request its fetch put on the wire,
\* `state` is "awaiting" until the promise settles
ServiceCall(route, body, request) ==
  [route |-> route, body |-> body, request |-> request, state |-> "awaiting",
   response |-> NoResponse]

\* if (!response.ok) throw ...; return data
settle(call, response) ==
  [call EXCEPT !.state = IF ok(response) THEN "returned" ELSE "threw",
               !.response = response]

\* the user action's handler calls AIService, whose fetch reaches the server
ViaProxy(route, body) ==
  /\ ArriveStep(route, body)
  /\ calls' = Append(calls, ServiceCall(route, body, Len(reqs) + 1))
  /\ UNCHANGED <<routerVars, builderVars, skillsVars>>

\* the fetch of call k settles: with the proxy's response, or rejected
\* because the connection was lost
ViaProxySettle(k, lost) ==
  /\ k \in 1..Len(calls)
  /\ calls[k].state = "awaiting"
  /\ ~lost => reqs[calls[k].request].response # NoResponse
  /\ calls' = [calls EXCEPT ![k] =
                 settle(calls[k], IF lost THEN NetworkError
                                  ELSE reqs[calls[k].request].response)]
  /\ UNCHANGED <<routerVars, builderVars, proxyVars, skillsVars>>

\* the clock readings of the server while calls are made: within the rate
\* limiter's window of the start, and past it
CallTimes == {BootTime + RATE_LIMIT_MS}

\* answers objects handed to generateViaProxy: the required fields, with and
\* without a company, a skills array and a contract duration
RequiredAnswers ==
  [role |-> "Engineer", location |-> "Remote", hireType |-> "Contract"]
CompanyAnswers == {EmptyObj, [company |-> ""], [company |-> "Acme Corp"]}
SkillsAnswers == {EmptyObj, [skills |-> <<>>], [skills |-> <<"Python", "Go">>]}
DurationAnswers == {EmptyObj, [duration |-> "6 months"]}
AnswerObjects ==
  {RequiredAnswers @@ c @@ s @@ d :
     c \in CompanyAnswers, s \in SkillsAnswers, d \in DurationAnswers}

\* AIService.generateViaProxy(answers)
generateViaProxy == ViaProxy("/api/generate", generateBody(answers))

GenerateNext ==
  \/ \E t \in CallTimes : Tick(t)
  \/ generateViaProxy
  \/ \E i \in 1..MaxRequests :
       \E up \in UpstreamResults("/api/generate") : UpstreamReply(i, up)
  \/ \E k \in 1..MaxRequests : \E lost \in BOOLEAN : ViaProxySettle(k, lost)

CallsNext ==
  \/ \E t \in CallTimes : Tick(t)
  \/ \E c \in AICalls : ViaProxy(c.route, c.body)
  \/ \E i \in 1..MaxRequests :
       \E up \in UpstreamResults(IF i <= Len(reqs) THEN reqs[i].route ELSE "") :
         UpstreamReply(i, up)
  \/ \E k \in 1..MaxRequests : \E lost \in BOOLEAN : ViaProxySettle(k, lost)

\* ---------------------------------------------------------------------------
\* The tag-based skills input (createSkillsInput)
\* ---------------------------------------------------------------------------
SkillNames == {"x", "Go", "SQL"}
\* what the user types into the input
SkillTexts == {"", " ", " x ", "Go", "SQL"}

RECURSIVE Lists(_, _)
\* the lists of at most n of the names, none twice
Lists(names, n) ==
  IF n = 0 THEN {<<>>}
  ELSE LET shorter == Lists(names, n - 1)
       IN shorter \cup
          UNION {{Append(l, v) : v \in {w \in names : ~includes(l, w)}} :
                   l \in shorter}
\* the lists the component is created with
SkillLists == Lists(SkillNames, MaxSkills)
SkillPositions == 1..MaxSkills

\* arr.filter((_, i) => i !== index), index counted from 1
filterIndex(arr, index) ==
  [j \in 1..(Len(arr) - 1) |-> IF j < index THEN arr[j] ELSE arr[j + 1]]

\* createSkillsInput(skills, onSkillsChange): the element is built and
\* renderSkills draws the tags of `skills`
createSkillsInput(given) ==
  /\ skills = given
  /\ skillInput = ""
  /\ reported = given
  /\ skillTags = given

\* the user types into the input
TypeSkill(v) ==
  /\ skillInput' = v
  /\ UNCHANGED <<skills, reported, skillTags>>
  /\ UNCHANGED <<routerVars, proxyVars, builderVars, calls>>

\* onkeydown with Enter
EnterSkill ==
  /\ LET value == trim(skillInput)
     IN IF value # "" /\ ~includes(skills, value)
        THEN /\ reported' = Append(skills, value)
             /\ skillInput' = ""
             /\ skillTags' = skills
        ELSE UNCHANGED <<reported, skillInput, skillTags>>
  /\ UNCHANGED skills
  /\ UNCHANGED <<routerVars, proxyVars, builderVars, calls>>

\* onclick of the remove button of tag i (index i - 1 of forEach)
RemoveSkill(i) ==
  /\ i \in 1..Len(skillTags)
  /\ reported' = filterIndex(skills, i)
  /\ skillTags' = skills
  /\ UNCHANGED <<skills, skillInput>>
  /\ UNCHANGED <<routerVars, proxyVars, builderVars, calls>>

SkillsNext ==
  \/ \E v \in SkillTexts : TypeSkill(v)
  \/ EnterSkill
  \/ \E i \in SkillPositions : RemoveSkill(i)

\* ---------------------------------------------------------------------------
\* Specifications
\* ---------------------------------------------------------------------------
\* no skills input exists
SkillsIdle == createSkillsInput(<<>>)
ProxyIdle ==
  now = BootTime /\ last = 0 /\ apiKey = "sk-A" /\ reqs = <<>> /\ calls = <<>>
BuilderIdle ==
  /\ currentStep = 0 /\ answers = EmptyObj /\ shown = ""
  /\ counter = <<0, 0>> /\ seen = {} /\ questionTimer = FALSE
  /\ pending = <<>> /\ redirects = 0
  /\ listed = <<>> /\ viewing = NoJD /\ jdText = "" /\ polishing = <<>>
RouterInit ==
  RouterStart /\ ProxyIdle /\ BuilderIdle /\ SkillsIdle /\ jobDescriptions = <<>>
SpecRouter == RouterInit /\ [][RouterNext]_vars

ProxyIdleRouter ==
  /\ hash = "" /\ currentUser = NoUser /\ users = StoredUsers
  /\ rendered = "none" /\ invoked = {} /\ notice = NoNotice
  /\ header = "none" /\ hashEvents = 0 /\ loaded = FALSE /\ loginRedirects = 0
ProxyInit ==
  ProxyStart /\ ProxyIdleRouter /\ BuilderIdle /\ SkillsIdle /\ jobDescriptions = <<>>
SpecProxy == ProxyInit /\ [][ProxyNext]_vars

CallsInit ==
  ProxyIdle /\ ProxyIdleRouter /\ BuilderIdle /\ SkillsIdle /\ jobDescriptions = <<>>
SpecCalls == CallsInit /\ [][CallsNext]_vars

SkillsInit ==
  /\ ProxyIdle /\ ProxyIdleRouter /\ BuilderIdle /\ jobDescriptions = <<>>
  /\ \E given \in SkillLists : createSkillsInput(given)
SpecSkills == SkillsInit /\ [][SkillsNext]_vars

\* the answers are given; the questionnaire that collected them is not modelled
GenerateInit ==
  /\ ProxyStart /\ ProxyIdleRouter /\ SkillsIdle /\ jobDescriptions = <<>>
  /\ currentStep = 0 /\ answers \in AnswerObjects /\ shown = ""
  /\ counter = <<0, 0>> /\ seen = {} /\ questionTimer = FALSE
  /\ pending = <<>> /\ redirects = 0
  /\ listed = <<>> /\ viewing = NoJD /\ jdText = "" /\ polishing = <<>>
SpecGenerate == GenerateInit /\ [][GenerateNext]_vars

WizardInit ==
  WizardStart /\ ProxyIdle /\ BuilderIdle /\ SkillsIdle /\ jobDescriptions \in StoredLists
SpecWizard == WizardInit /\ [][WizardNext]_vars
BuilderInit ==
  BuilderStart /\ ProxyIdle /\ BuilderIdle /\ SkillsIdle /\ jobDescriptions \in StoredLists
SpecBuilder == BuilderInit /\ [][BuilderNext]_vars

JDViewInit ==
  JDViewStart /\ ProxyIdle /\ BuilderIdle /\ SkillsIdle /\ jobDescriptions \in SavedLists
SpecJDView == JDViewInit /\ [][JDViewNext]_vars

\* the page finishes loading, the timer fires, and the user keeps answering
SpecWizardLive ==
  /\ WizardInit
  /\ [][WizardLiveNext]_vars
  /\ WF_vars(DOMContentLoaded)
  /\ WF_vars(QuestionTimer)
  /\ WF_vars(AnswerNext)
  /\ WF_vars(AddItem)

\* ---------------------------------------------------------------------------
\* C1: every render of a guarded route without a session leaves the route's
\* view function uncalled, renders the Login view, shows the error
\* notification and sets the hash to #/login; with a session the route's own
\* view is called and rendered.
\* ---------------------------------------------------------------------------
C1_GuardedRoutes ==
  [][\A h \in GuardedRoutes :
       ((DOMContentLoaded \/ HashChange) /\ hash = h) =>
         IF currentUser = NoUser
         THEN /\ RouteView(h) \notin invoked'
              /\ rendered' = "Login"
              /\ notice' = Notification("Please login to access this page.",
                                        "error")
              /\ hash' = "#/login"
         ELSE /\ invoked' = {RouteView(h)}
              /\ rendered' = RouteView(h)
              /\ hash' = h]_vars

\* a guarded address was rendered without a session: Login is on screen
C1_Witness ==
  /\ currentUser = NoUser
  /\ rendered = "Login"
  /\ invoked = {"Login"}
  /\ hash = "#/login"
  /\ hashEvents > 0
  /\ notice = Notification("Please login to access this page.", "error")

\* ---------------------------------------------------------------------------
\* C2: any two requests that passed the rate-limit middleware have timestamps
\* at least 750 ms apart, and a request arriving less than 750 ms after an
\* admitted one is answered 429 {error: "Too many requests"}, reaches no route
\* handler and causes no upstream call.
\* ---------------------------------------------------------------------------
Passed(r) == r.handler # ""

C2_RateLimit ==
  /\ \A i, j \in 1..Len(reqs) :
       (i < j /\ Passed(reqs[i]) /\ Passed(reqs[j]))
         => reqs[j].at - reqs[i].at >= 750
  /\ \A j \in 1..Len(reqs) :
       (\E i \in 1..(j - 1) :
          Passed(reqs[i]) /\ reqs[j].at - reqs[i].at < 750)
         => /\ reqs[j].response = Response(429, [error |-> "Too many requests"])
            /\ reqs[j].handler = ""
            /\ reqs[j].upstream = NoCall
            /\ reqs[j].result = NoResult

\* an admitted request followed 749 ms later by a rejected one
C2_Witness ==
  /\ Len(reqs) >= 2
  /\ Passed(reqs[1])
  /\ reqs[2].at - reqs[1].at = 749
  /\ reqs[2].response.status = 429

\* ---------------------------------------------------------------------------
\* C3 as amended: the key is sent nowhere but in the Authorization header of
\* the upstream request; the upstream body and, for a configured key, every
\* response to the client are the same whatever configured key the server
\* holds, given the same request and upstream result; the client's requests
\* carry no key (getApiKey() is the empty string, the only header is
\* Content-Type).
\* ---------------------------------------------------------------------------
SetKeys == {k \in Keys : Truthy(k)}
Answered(r) == r.response # NoResponse

C4_QuestionnaireProgress ==
  /\ <>(shown = "loading" /\ Len(pending) = 1)
  /\ \A k \in QuestionKeys : (shown = k) ~> (shown # k)

\* the request has left after the last question was answered
C4_Witness ==
  /\ shown = "loading"
  /\ Len(pending) = 1
  /\ currentStep = Len(getFilteredQuestions(answers))
  /\ "applicationProcess" \in DOMAIN pending[1].answers

\* ---------------------------------------------------------------------------
\* C5: when the generate request is sent, every question of the filtered
\* list for the recorded answers was displayed and has a non-empty recorded
\* answer; the skills and benefits answers hold at least one item.
\* ---------------------------------------------------------------------------
NonEmptyAnswer(ans, key) ==
  /\ key \in DOMAIN ans
  /\ IF key \in ArrayKeys THEN Len(ans[key]) >= 1 ELSE ans[key] # ""

C5_AllQuestionsAnswered ==
  \A i \in 1..Len(pending) :
    LET call == pending[i]
        filteredQuestions == getFilteredQuestions(call.answers)
    IN \A j \in 1..Len(filteredQuestions) :
         /\ filteredQuestions[j].key \in call.seen
         /\ NonEmptyAnswer(call.answers, filteredQuestions[j].key)

\* ---------------------------------------------------------------------------
\* C6 as amended: the duration question is on screen only while the recorded
\* hireType is "Contract"; a valid Next on hireType shows duration when the
\* answer is "Contract" and domain otherwise; the counter reads
\* 'Question i of n' with n = 12 without the duration question and n = 13
\* with it.
\* ---------------------------------------------------------------------------
OnHireType(v) == shown = "hireType" /\ trim(v) # "" /\ PressNext(v)
Contract == Field(answers, "hireType") = "Contract"
\* the card that follows hireType is the fifth
AfterHireType == shown \in QuestionKeys /\ counter[1] = 5

C6_ConditionalDuration ==
  /\ [](shown = "duration" => Contract)
  /\ [](AfterHireType => shown = IF Contract THEN "duration" ELSE "domain")
  /\ [][\A v \in SelectInputs :
          OnHireType(v) =>
            shown' = IF v = "Contract" THEN "duration" ELSE "domain"]_vars
  /\ [](shown \in QuestionKeys => counter[2] = IF Contract THEN 13 ELSE 12)

\* the duration question on screen as the fifth of thirteen
C6_Witness ==
  /\ shown = "duration"
  /\ counter = <<5, 13>>
  /\ answers["hireType"] = "Contract"

\* C6 as stated: the duration question is on screen only while the recorded
\* hireType is "Contract", the card after hireType is duration for "Contract"
\* and domain otherwise, and n = 13 without the duration question and n = 14
\* with it
C6_Original ==
  /\ shown = "duration" => Contract
  /\ AfterHireType => shown = IF Contract THEN "duration" ELSE "domain"
  /\ shown \in QuestionKeys => counter[2] = IF Contract THEN 14 ELSE 13

\* ---------------------------------------------------------------------------
\* C7: when a generate request succeeds, the stored list becomes the new job
\* description followed by the previous list, the new entry carries the
\* returned text as its content and the answers of the request, and it is the
\* entry Views.JDView shows as "Latest".
\* ---------------------------------------------------------------------------
\* Views.JDView: const latest = jobDescriptions[0]
latest(stored) == stored[1]

C8_FallbackOnFailure ==
  [][\A i \in 1..MaxInFlight : \A r \in GenerateOutcomes :
       (GenerateReply(i, r) /\ ~ok(r)) =>
         /\ shown' # "failed"
         /\ Len(jobDescriptions') = Len(jobDescriptions) + 1
         /\ ~buildJobDescription(pending[i].answers).threw
         /\ jobDescriptions'[1].content =
              buildJobDescription(pending[i].answers).value]_vars

\* ---------------------------------------------------------------------------
\* C9: "Save Final" stores the text on screen (the polished text, once
\* polishing has replaced it) as the content of the stored job description
\* with the id shown, and leaves every other stored entry as it was.
\* ---------------------------------------------------------------------------
C9_SaveFinalStoresRefined ==
  [][SaveFinal =>
       /\ Len(jobDescriptions') = Len(jobDescriptions)
       /\ \A i \in 1..Len(jobDescriptions) :
            IF jobDescriptions[i].id = viewing.id
            THEN jobDescriptions'[i].content = jdText
            ELSE jobDescriptions'[i] = jobDescriptions[i]]_vars

\* ---------------------------------------------------------------------------
\* C10: the JD text the client puts in the polish request is the text the
\* server places after "Original JD:" in the user message it sends upstream.
\* ---------------------------------------------------------------------------
C10_PolishFieldsAgree ==
  \A i \in 1..Len(reqs) :
    LET r == reqs[i]
    IN (r.route = "/api/polish" /\ r.upstream # NoCall) =>
         r.upstream.body.messages[2].content =
           polishPrompt(Field(r.body, "content"), Field(r.body, "instructions"))

\* ---------------------------------------------------------------------------
\* C11: no retry.  Every request that reaches the proxy is the one fetch of
\* one AIService call, and a request is put on the wire only by a new call; a
\* call that has settled (returned or thrown) does nothing more; a request
\* whose upstream call has a result is finished: the upstream call is made
\* once, when the request is admitted, and never again.
\* ---------------------------------------------------------------------------
C11_NoRetry ==
  /\ [](/\ Len(calls) = Len(reqs)
        /\ \A k \in 1..Len(calls) : calls[k].request = k)
  /\ [][/\ Len(reqs') > Len(reqs) =>
            /\ Len(reqs') = Len(reqs) + 1
            /\ Len(calls') = Len(calls) + 1
        /\ \A k \in 1..Len(calls) :
             calls[k].state # "awaiting" => calls'[k] = calls[k]
        /\ \A i \in 1..Len(reqs) :
             /\ reqs'[i].upstream = reqs[i].upstream
             /\ (reqs[i].result # NoResult \/ reqs[i].response # NoResponse)
                  => reqs'[i] = reqs[i]]_vars

\* the upstream refused the only call made for the only request, and the
\* AIService call threw
C11_Witness ==
  /\ Len(calls) = 1
  /\ Len(reqs) = 1
  /\ reqs[1].result.kind = "http"
  /\ calls[1].state = "threw"
  /\ calls[1].response.status = 500

\* ---------------------------------------------------------------------------
\* C12: the limiter is one timestamp for all clients and all routes.  The
\* middleware reads nothing of the request, so whatever the routes (GET /health
\* included) and whoever sent them, a request arriving less than 750 ms after
\* an admitted one is answered 429; `last` always holds the arrival time of
\* the latest admitted request (0 before the first); and the test and the
\* assignment are one step: every admission finds `last` at least 750 ms old
\* and leaves it at its own, later, arrival time, every rejection leaves it
\* alone, so no two requests are admitted against the same value of `last`.
\* ---------------------------------------------------------------------------
Admitted == {i \in 1..Len(reqs) : Passed(reqs[i])}

LastAdmitted ==
  IF Admitted = {} THEN 0
  ELSE reqs[CHOOSE i \in Admitted : \A j \in Admitted : j <= i].at

C12_GlobalLimiter ==
  /\ [](/\ last = LastAdmitted
        /\ \A i, j \in 1..Len(reqs) :
             (i < j /\ Passed(reqs[i]) /\ reqs[j].at - reqs[i].at < RATE_LIMIT_MS)
               => /\ reqs[j].route \in {c.route : c \in ClientCalls}
                  /\ reqs[j].response = TooManyRequests
                  /\ ~Passed(reqs[j]))
  /\ [][Len(reqs') = Len(reqs) + 1 =>
          LET r == reqs'[Len(reqs')] IN
            IF Passed(r)
            THEN /\ r.at - last >= RATE_LIMIT_MS
                 /\ last' = r.at
                 /\ last' > last
            ELSE /\ r.at - last < RATE_LIMIT_MS
                 /\ last' = last
                 /\ r.response = TooManyRequests]_vars

\* GET /health is admitted and a generate request 749 ms later is rejected
C12_Witness ==
  /\ Len(reqs) >= 2
  /\ reqs[1].route = "/health"
  /\ Passed(reqs[1])
  /\ reqs[2].route = "/api/generate"
  /\ reqs[2].at - reqs[1].at = RATE_LIMIT_MS - 1
  /\ reqs[2].response = TooManyRequests
  /\ last = reqs[1].at

\* ---------------------------------------------------------------------------
\* C13: whatever the answers object (no company, an empty one, a named one),
\* the body generateViaProxy sends to /api/generate has no `company` key and
\* is otherwise the answers (arrays joined); the server receives that body,
\* and the user message it builds has no line labelled as a company line, no
\* line carrying the company's name, and is the message it would build had
\* the answers never held a company.
\* ---------------------------------------------------------------------------
\* the label JobDescriptionBuilder.buildPromptFromAnswers gives its company line
CompanyLabel == "Company: "

WithoutCompany(ans) == [k \in DOMAIN ans \ {"company"} |-> ans[k]]

C13_CompanyAgnostic ==
  \A k \in 1..Len(calls) :
    calls[k].route = "/api/generate" =>
      LET body == calls[k].body
          r == reqs[calls[k].request]
          lines == generateLines(r.body)
      IN /\ "company" \notin DOMAIN body.answers
         /\ DOMAIN body.answers = DOMAIN answers \ {"company"}
         /\ r.body = body
         /\ \A i \in 1..Len(lines) :
              /\ lines[i].label # CompanyLabel
              /\ Truthy(Field(answers, "company"))
                   => lines[i].value # answers.company
         /\ r.upstream # NoCall =>
              /\ r.upstream.body.messages[2].content = generateUser(r.body)
              /\ generateUser(r.body)
                   = generateUser(generateBody(WithoutCompany(answers)))

\* answers naming a company were sent and the server built its prompt
C13_Witness ==
  /\ Field(answers, "company") = "Acme Corp"
  /\ Len(calls) >= 1
  /\ calls[1].route = "/api/generate"
  /\ reqs[1].upstream # NoCall
  /\ reqs[1].upstream.body.messages[2].content
       = "Job Role: Engineer\nLocation: Remote\nEmployment type: Contract"

\* ---------------------------------------------------------------------------
\* C14: every record Signup appends to the stored users has a hashedPassword
\* and a salt and no `password` field; no step of signup or login gives a
\* stored record a `password` it did not hold before, so the only records
\* with one are legacy records nobody has logged in with; none of the other
\* stored fields holds a password typed into a form; and the session record
\* has the fields username, first, last and email only, none a password.
\* ---------------------------------------------------------------------------
TypedPasswords == Passwords \cup SignupPasswords

C14_NoPlainTextPassword ==
  /\ [](/\ \A i \in 1..Len(users) :
             /\ i > Len(StoredUsers) =>
                  /\ users[i].hashedPassword # Absent
                  /\ users[i].salt # Absent
                  /\ users[i].password = Absent
             /\ users[i].password # Absent =>
                  i <= Len(StoredUsers) /\ users[i] = StoredUsers[i]
             /\ \A f \in {"username", "first", "last", "email", "salt"} :
                  users[i][f] \notin TypedPasswords
        /\ DOMAIN currentUser = {"username", "first", "last", "email"}
        /\ \A f \in DOMAIN currentUser : currentUser[f] \notin TypedPasswords)
  /\ [][\A i \in 1..Len(users') :
          users'[i].password # Absent =>
            i <= Len(users) /\ users'[i].password = users[i].password]_vars

\* a user who signed up is stored and has logged in
C14_Witness ==
  /\ Len(users) = Len(StoredUsers) + 1
  /\ users[Len(users)].username = "eve"
  /\ users[Len(users)].hashedPassword = hashPassword("pw1", users[Len(users)].salt)
  /\ currentUser = SessionOf(users[Len(users)])

C16_ProperLogout ==
  [][/\ Logout =>
          /\ currentUser' = NoUser
          /\ hash' = "#/"
          /\ header' = "guest"
     /\ (currentUser = NoUser /\ currentUser' # NoUser) =>
          /\ rendered = "Login"
          /\ notice' = Notification("Welcome back", "success")
          /\ \E u \in UserNames, p \in Passwords, s \in Salts, h \in BOOLEAN :
               LoginSubmit(u, p, s, h)
     /\ (currentUser = NoUser /\ currentUser' = NoUser) =>
          /\ header = "guest" => header' = "guest"
          /\ (hash \in GuardedRoutes /\ (HashChange \/ DOMContentLoaded)) =>
               /\ rendered' = "Login"
               /\ invoked' = {"Login"}
               /\ hash' = "#/login"
               /\ notice' = Notification("Please login to access this page.",
                                         "error")]_vars

\* the user has just logged out of a guarded view, which is still on screen
\* until the hashchange event is handled
C16_Witness ==
  /\ notice = Notification("Logged out successfully!", "success")
  /\ currentUser = NoUser
  /\ hash = "#/"
  /\ header = "guest"
  /\ rendered = "Sales"
  /\ hashEvents > 0

\* ---------------------------------------------------------------------------
\* C17: every 200 response of POST /api/sourcing has `companies`, `diceSearch`
\* and a non-empty `summary`; when callOpenAI returned a text that does not
\* parse as a JSON object the answer is 200 with the sample strategy built
\* from the requested location; and the answer is 500 only when callOpenAI
\* threw.
\* ---------------------------------------------------------------------------
ParsesAsObject(text) == parseJson(trim(text)).ok /\ ~parseJson(trim(text)).array

C17_StructuredSourcing ==
  \A i \in 1..Len(reqs) :
    (reqs[i].route = "/api/sourcing" /\ Passed(reqs[i])
       /\ reqs[i].response # NoResponse) =>
      LET r == reqs[i]
          c == callOpenAI(apiKey, r.result)
      IN /\ r.response.status \in {200, 500}
         /\ r.response.status = 200 =>
              /\ {"companies", "diceSearch", "summary"}
                   \subseteq DOMAIN r.response.body
              /\ r.response.body.summary # ""
         /\ (~c.threw /\ ~ParsesAsObject(c.value)) =>
              r.response
                = Response(200, sourcingFallback(Field(r.body, "location")))
         /\ r.response.status = 500 => c.threw

\* ---------------------------------------------------------------------------
\* C18: pressing Enter on a non-empty value that the list does not hold yet
\* reports the list followed by that value, so that after s1..sk the report
\* is S, s1, .., sk; pressing Enter on a value the list holds reports
\* nothing; clicking the remove button of a tag reports the list without
\* exactly that skill; and no reported list holds a value twice.  The list
\* is the one the owner holds: the latest report, S before the first.
\* ---------------------------------------------------------------------------
Without(list, skill) == SelectSeq(list, LAMBDA e : e # skill)

NoneTwice(list) ==
  \A i, j \in 1..Len(list) : list[i] = list[j] => i = j

C18_SkillsInput ==
  [][/\ EnterSkill =>
          LET value == trim(skillInput)
          IN IF value # "" /\ ~includes(reported, value)
             THEN reported' = Append(reported, value)
             ELSE reported' = reported
     /\ \A i \in SkillPositions :
          RemoveSkill(i) => reported' = Without(reported, skillTags[i])
     /\ NoneTwice(reported')]_vars

\* ---------------------------------------------------------------------------
\* C19: when the generate call fails (fetch rejects, or the response is not
\* 2xx: the proxy's 429 and 500 among them), the stored job descriptions are
\* unchanged, no redirect to #/jd-view is scheduled and the address is left
\* alone, the answers are kept, and the questionnaire that made the call, if
\* it is still on the page, shows 'Generation Failed'; a page the user has
\* moved to meanwhile is not touched.
\* ---------------------------------------------------------------------------
Failed(response) == response.status < 200 \/ response.status > 299

====
